---------------------------- MODULE Spec2Model ----------------------------
(* Model of mc_mujoco's merge of several MuJoCo XML models into one        *)
(* (src/src/mj_utils_merge_mujoco_models.cpp).                             *)
(*                                                                         *)
(* An XML node is a record [name, attrs, children]: name is the tag,       *)
(* attrs the ordered attribute list (records [name, value]) and children   *)
(* the ordered child list.  Tag and attribute names are TLA+ strings;      *)
(* attribute values, entity identifiers and file paths are sequences of    *)
(* one-character strings, so that prefixing, path resolution and integer   *)
(* parsing act on the text as the code does.                               *)
EXTENDS Integers, Sequences, FiniteSets, TLC

VARIABLES
  robots,    \* the entity identifiers, argument of merge_mujoco_models
  xmlFiles,  \* the files of the entities, argument of merge_mujoco_models
  pc,        \* the position in merge_mujoco_models / merge_mujoco_model
  i,         \* the loop index of merge_mujoco_models, counted from 1
  root,      \* the mujoco node of the document being merged, or Null
  out,       \* the mujoco node of out_doc, or Null before it is created
  log,       \* the diagnostics reported so far
  loaded,    \* the files load_file was called on, in order
  written,   \* the tree saved to outFile by this call, or Null
  result     \* the returned path, or Null

vars == <<robots, xmlFiles, pc, i, root, out, log, loaded, written, result>>

(***************************************************************************)
(* Bounds of the model.                                                    *)
(***************************************************************************)
\* Largest number of entities in one call of merge_mujoco_models.
MaxEntities == 2

(***************************************************************************)
(* Text.                                                                   *)
(***************************************************************************)
Range(s) == {s[k] : k \in 1..Len(s)}

\* std::string == on two texts that may differ in length.
IsPrefixOf(p, s) == Len(p) <= Len(s) /\ SubSeq(s, 1, Len(p)) = p

(***************************************************************************)
(* pugixml nodes and attributes.                                           *)
(***************************************************************************)
Node(name, attrs, children) ==
  [name |-> name, attrs |-> attrs, children |-> children]

At(name, value) == [name |-> name, value |-> value]

\* The null handle pugixml returns for a missing child: no name, no
\* attributes, no children.
NullNode == Node("", <<>>, <<>>)

IsNull(n) == n.name = ""

\* A value no node, document or path equals.
Null == [null |-> TRUE]

\* xml_node::attribute(name): the index of the first attribute called name,
\* 0 for the null attribute.
AttrIndex(n, name) ==
  IF \E k \in 1..Len(n.attrs) : n.attrs[k].name = name
  THEN CHOOSE k \in 1..Len(n.attrs) :
         /\ n.attrs[k].name = name
         /\ \A m \in 1..(k - 1) : n.attrs[m].name # name
  ELSE 0

HasAttr(n, name) == AttrIndex(n, name) # 0

\* xml_attribute::value()
AttrValue(n, name) == n.attrs[AttrIndex(n, name)].value

\* xml_attribute::set_value on an attribute the node has.
SetAttr(n, name, value) ==
  [n EXCEPT !.attrs[AttrIndex(n, name)].value = value]

\* xml_node::append_attribute(name).set_value(value)
AppendAttr(n, name, value) ==
  [n EXCEPT !.attrs = Append(@, At(name, value))]

\* xml_node::child(name): the index of the first child called name, 0 for
\* the null node.
ChildIndex(n, name) ==
  IF \E k \in 1..Len(n.children) : n.children[k].name = name
  THEN CHOOSE k \in 1..Len(n.children) :
         /\ n.children[k].name = name
         /\ \A m \in 1..(k - 1) : n.children[m].name # name
  ELSE 0

Child(n, name) ==
  IF ChildIndex(n, name) = 0 THEN NullNode ELSE n.children[ChildIndex(n, name)]

\* xml_node::children(name): the children called name, in document order.
ChildrenNamed(n, name) == SelectSeq(n.children, LAMBDA c : c.name = name)

\* get_child_or_create: the node with a child called name appended when it
\* has none; the child is then n.children[ChildIndex(n, name)].
get_child_or_create(n, name) ==
  IF ChildIndex(n, name) # 0 THEN n
  ELSE [n EXCEPT !.children = Append(@, Node(name, <<>>, <<>>))]

\* The node with its child called name replaced by c.
WithChild(n, name, c) == [n EXCEPT !.children[ChildIndex(n, name)] = c]

(***************************************************************************)
(* xml_attribute::as_int and set_value(int).                               *)
(***************************************************************************)
IntMax == 2147483647
IntMin == -IntMax - 1

Digits == <<"0", "1", "2", "3", "4", "5", "6", "7", "8", "9">>

IsDigit(c) == c \in Range(Digits)

DigitValue(c) == (CHOOSE k \in 1..10 : Digits[k] = c) - 1

\* The magnitude of the digits of s from position k on, stopping at the
\* first character that is no digit, and IntMax + "overflow" once the
\* magnitude exceeds IntMax: [v, ovf].
RECURSIVE ParseMagnitude(_, _, _)
ParseMagnitude(s, k, acc) ==
  IF k > Len(s) \/ ~IsDigit(s[k]) THEN acc
  ELSE LET d == DigitValue(s[k]) IN
       IF acc.ovf \/ acc.v > (IntMax - d) \div 10
       THEN ParseMagnitude(s, k + 1, [v |-> IntMax, ovf |-> TRUE])
       ELSE ParseMagnitude(s, k + 1, [v |-> acc.v * 10 + d, ovf |-> FALSE])

\* as_int(): an optional sign, then decimal digits, clamped to the range of
\* int.
as_int(s) ==
  LET neg == Len(s) > 0 /\ s[1] = "-"
      start == IF Len(s) > 0 /\ s[1] \in {"-", "+"} THEN 2 ELSE 1
      m == ParseMagnitude(s, start, [v |-> 0, ovf |-> FALSE])
  IN  IF neg THEN (IF m.ovf THEN IntMin ELSE -m.v) ELSE m.v

RECURSIVE FormatNat(_)
FormatNat(n) ==
  IF n < 10 THEN <<Digits[n + 1]>>
  ELSE Append(FormatNat(n \div 10), Digits[(n % 10) + 1])

\* set_value(int): the decimal text of n.
FormatInt(n) ==
  IF n >= 0 THEN FormatNat(n)
  ELSE IF n = IntMin
       THEN <<"-", "2", "1", "4", "7", "4", "8", "3", "6", "4", "8">>
       ELSE <<"-">> \o FormatNat(-n)

\* a + b fits int.
SumFits(a, b) ==
  /\ (a > 0 /\ b > 0) => a <= IntMax - b
  /\ (a < 0 /\ b < 0) => a >= IntMin - b

\* a + b reduced modulo 2^32 into the range of int, for a sum that does not
\* fit.
WrapSum(a, b) ==
  IF a > 0 THEN (a - IntMax - 1) + (b - IntMax - 1)
  ELSE (a + IntMax + 1) + (b + IntMax + 1)

(***************************************************************************)
(* boost::filesystem paths (POSIX): a path is its text.                    *)
(***************************************************************************)
\* The working directory of the process, which bfs::absolute resolves
\* against.
Cwd == <<"/", "w">>

is_absolute(p) == Len(p) > 0 /\ p[1] = "/"

\* path::parent_path(): the text before the last separator, the root for a
\* file in the root, empty for a bare file name.
parent_path(p) ==
  LET seps == {k \in 1..Len(p) : p[k] = "/"} IN
  IF seps = {} THEN <<>>
  ELSE LET last == CHOOSE k \in seps : \A m \in seps : m <= k IN
       IF last = 1 THEN <<"/">> ELSE SubSeq(p, 1, last - 1)

\* operator/ on a relative right-hand side: the two texts with a separator
\* between them unless the left one is empty or ends with one.
PathJoin(a, b) ==
  IF Len(a) = 0 THEN b
  ELSE IF Len(b) = 0 THEN a
  ELSE IF a[Len(a)] = "/" THEN a \o b
  ELSE a \o <<"/">> \o b

\* bfs::absolute(p)
absolute(p) == IF is_absolute(p) THEN p ELSE PathJoin(Cwd, p)

(***************************************************************************)
(* Diagnostics (mc_rtc::log).                                              *)
(***************************************************************************)
Critical(node, attr, fileIn, value, kept) ==
  [level |-> "critical", node |-> node, attr |-> attr, file |-> fileIn,
   value |-> value, kept |-> kept]

Fatal(what, xmlFile) == [level |-> "error", what |-> what, file |-> xmlFile]

(***************************************************************************)
(* merge_mujoco_size                                                       *)
(***************************************************************************)
attributes ==
  <<"njmax", "nconmax", "nstack", "nuserdata", "nkey", "nuser_body",
    "nuser_jnt", "nuser_geom", "nuser_site", "nuser_cam", "nuser_tendon",
    "nuser_actuator", "nuser_sensor">>

\* out_attr.as_int() + in_attr.as_int(): the set of results [trap, v].  An
\* addition that overflows is undefined behaviour: a build wraps modulo
\* 2^32 or traps.
IntSum(a, b) ==
  IF SumFits(a, b) THEN {[trap |-> FALSE, v |-> a + b]}
  ELSE {[trap |-> FALSE, v |-> WrapSum(a, b)], [trap |-> TRUE, v |-> 0]}

\* The loop of merge_mujoco_size from attribute k on: the set of outcomes
\* [trap, out], out the size node it leaves unless an addition trapped.
RECURSIVE merge_size_from(_, _, _)
merge_size_from(in, o, k) ==
  IF k > Len(attributes) THEN {[trap |-> FALSE, out |-> o]}
  ELSE LET attr == attributes[k] IN
       IF ~HasAttr(in, attr) THEN merge_size_from(in, o, k + 1)
       ELSE IF HasAttr(o, attr)
       THEN UNION { IF r.trap THEN {[trap |-> TRUE, out |-> o]}
                    ELSE merge_size_from(in, SetAttr(o, attr, FormatInt(r.v)),
                                         k + 1) :
                    r \in IntSum(as_int(AttrValue(o, attr)),
                                 as_int(AttrValue(in, attr))) }
       ELSE merge_size_from(in, AppendAttr(o, attr, AttrValue(in, attr)), k + 1)

merge_mujoco_size(in, o) == merge_size_from(in, o, 1)

(***************************************************************************)
(* merge_mujoco_node: the first loaded value prevails.                     *)
(***************************************************************************)
\* The iteration with the last loaded value prevailing.
merge_attribute_last_wins(node, fileIn, a, st, exclude) ==
  IF a.name \in exclude THEN st
  ELSE IF ~HasAttr(st.out, a.name)
  THEN [st EXCEPT !.out = AppendAttr(@, a.name, a.value)]
  ELSE IF AttrValue(st.out, a.name) # a.value
  THEN [out |-> SetAttr(st.out, a.name, a.value),
        log |-> Append(st.log, Critical(node, a.name, fileIn, a.value,
                                        AttrValue(st.out, a.name)))]
  ELSE st

\* The iteration reporting every attribute the output already has, equal
\* or not.
merge_attribute_always_reports(node, fileIn, a, st, exclude) ==
  IF a.name \in exclude THEN st
  ELSE IF ~HasAttr(st.out, a.name)
  THEN [st EXCEPT !.out = AppendAttr(@, a.name, a.value)]
  ELSE [st EXCEPT !.log = Append(@, Critical(node, a.name, fileIn, a.value,
                                             AttrValue(st.out, a.name)))]

\* One iteration of the loop for the source attribute a, on the pair
\* [out, log] of the output node and the diagnostics emitted so far.
merge_attribute(node, fileIn, a, st, exclude) ==
  IF a.name \in exclude THEN st
  ELSE IF ~HasAttr(st.out, a.name)
  THEN [st EXCEPT !.out = AppendAttr(@, a.name, a.value)]
  ELSE IF AttrValue(st.out, a.name) # a.value
  THEN [st EXCEPT !.log = Append(@, Critical(node, a.name, fileIn, a.value,
                                             AttrValue(st.out, a.name)))]
  ELSE st

RECURSIVE merge_node_from(_, _, _, _, _, _)
merge_node_from(node, fileIn, in, st, exclude, k) ==
  IF k > Len(in.attrs) THEN st
  ELSE merge_node_from(node, fileIn, in,
                       merge_attribute(node, fileIn, in.attrs[k], st, exclude),
                       exclude, k + 1)

\* merge_mujoco_node(node, fileIn, in, out, exclude): [out, log], the output
\* node after the merge and the diagnostics emitted.
merge_mujoco_node(node, fileIn, in, o, exclude) ==
  merge_node_from(node, fileIn, in, [out |-> o, log |-> <<>>], exclude, 1)

merge_mujoco_compiler(fileIn, in, o) ==
  merge_mujoco_node("compiler", fileIn, in, o, {"meshdir", "texturedir"})

merge_mujoco_option(fileIn, in, o) ==
  LET m == merge_mujoco_node("option", fileIn, in, o, {})
      flag == Child(in, "flag")
  IN  IF IsNull(flag) THEN m
      ELSE LET o1 == get_child_or_create(m.out, "flag")
               f == merge_mujoco_node("option/flag", fileIn, flag,
                                      Child(o1, "flag"), {})
           IN  [out |-> WithChild(o1, "flag", f.out), log |-> m.log \o f.log]

(***************************************************************************)
(* Namespace prefixing.                                                    *)
(***************************************************************************)
\* The format with the prefix left out.
format_prefix_dropped(prefix, value) == <<"_">> \o value

\* fmt::format("{}_{}", prefix, value)
format_prefix(prefix, value) == prefix \o <<"_">> \o value

add_prefix(prefix, n, attr) ==
  IF HasAttr(n, attr)
  THEN SetAttr(n, attr, format_prefix(prefix, AttrValue(n, attr)))
  ELSE n

\* for(attr : attrs) add_prefix(prefix, n, attr), from the k-th name on.
RECURSIVE add_prefixes_from(_, _, _, _)
add_prefixes_from(prefix, n, attrs, k) ==
  IF k > Len(attrs) THEN n
  ELSE add_prefixes_from(prefix, add_prefix(prefix, n, attrs[k]), attrs, k + 1)

\* The loop run twice over the same node.
add_prefixes_twice(prefix, n, attrs) ==
  add_prefixes_from(prefix, add_prefixes_from(prefix, n, attrs, 1), attrs, 1)

add_prefixes(prefix, n, attrs) == add_prefixes_from(prefix, n, attrs, 1)

RECURSIVE add_prefix_recursively(_, _, _)
add_prefix_recursively(prefix, n, attrs) ==
  LET m == add_prefixes(prefix, n, attrs) IN
  [m EXCEPT !.children =
     [k \in 1..Len(m.children) |->
        add_prefix_recursively(prefix, m.children[k], attrs)]]

(***************************************************************************)
(* Section mergers.                                                        *)
(***************************************************************************)
\* The body of merge_mujoco_default's loop for the source child c, on the
\* pair [out, log].
merge_default_child(fileIn, c, st, robot) ==
  IF c.name = "default"
  THEN [st EXCEPT !.out.children =
          Append(@, add_prefix_recursively(robot, c,
                      <<"class", "material", "hfield", "mesh", "target">>))]
  ELSE LET o1 == get_child_or_create(st.out, c.name)
           m == merge_mujoco_node("default/" \o c.name, fileIn, c,
                                  Child(o1, c.name), {})
       IN  [out |-> WithChild(o1, c.name, m.out), log |-> st.log \o m.log]

RECURSIVE merge_default_from(_, _, _, _, _)
merge_default_from(fileIn, in, st, robot, k) ==
  IF k > Len(in.children) THEN st
  ELSE merge_default_from(fileIn, in,
         merge_default_child(fileIn, in.children[k], st, robot), robot, k + 1)

merge_mujoco_default(fileIn, in, o, robot) ==
  merge_default_from(fileIn, in, [out |-> o, log |-> <<>>], robot, 1)

RECURSIVE merge_visual_from(_, _, _, _)
merge_visual_from(fileIn, in, st, k) ==
  IF k > Len(in.children) THEN st
  ELSE LET c == in.children[k]
           o1 == get_child_or_create(st.out, c.name)
           m == merge_mujoco_node("visual/" \o c.name, fileIn, c,
                                  Child(o1, c.name), {})
       IN  merge_visual_from(fileIn, in,
             [out |-> WithChild(o1, c.name, m.out), log |-> st.log \o m.log],
             k + 1)

merge_mujoco_visual(fileIn, in, o) ==
  merge_visual_from(fileIn, in, [out |-> o, log |-> <<>>], 1)

\* The copies copy_and_add_prefix appends: the children of in called name,
\* each with the attributes attrs prefixed.
copy_and_add_prefix(in, o, name, prefix, attrs) ==
  LET cs == ChildrenNamed(in, name) IN
  [o EXCEPT !.children =
     @ \o [k \in 1..Len(cs) |-> add_prefixes(prefix, cs[k], attrs)]]

\* The lambda update_name of merge_mujoco_asset.
update_name(robot, n) == add_prefix(robot, n, "name")

\* The lambda update_file of merge_mujoco_asset.
update_file(n, dir) ==
  IF HasAttr(n, "file") /\ ~is_absolute(AttrValue(n, "file"))
  THEN SetAttr(n, "file", absolute(PathJoin(dir, AttrValue(n, "file"))))
  ELSE n

\* The copy of one hfield.
copy_hfield(robot, hf) == update_name(robot, hf)

\* The lambda copy_assets of merge_mujoco_asset: the copy of one asset.
copy_asset(robot, n, dir) == update_file(update_name(robot, n), dir)

\* The copy of one skin: its bones' body attributes are prefixed.
copy_skin(robot, s, meshPath) ==
  LET c == update_file(update_name(robot, s), meshPath) IN
  [c EXCEPT !.children =
     [k \in 1..Len(c.children) |->
        IF c.children[k].name = "bone"
        THEN add_prefix(robot, c.children[k], "body")
        ELSE c.children[k]]]

\* The copy of one material.
copy_material(robot, mat) ==
  add_prefix(robot, update_name(robot, mat), "texture")

merge_mujoco_asset(in, o, meshPath, texturePath, robot) ==
  LET hfs == ChildrenNamed(in, "hfield")
      sks == ChildrenNamed(in, "skin")
      mts == ChildrenNamed(in, "material")
      txs == ChildrenNamed(in, "texture")
      mss == ChildrenNamed(in, "mesh")
  IN  [o EXCEPT !.children =
         @ \o [k \in 1..Len(hfs) |-> copy_hfield(robot, hfs[k])]
           \o [k \in 1..Len(sks) |-> copy_skin(robot, sks[k], meshPath)]
           \o [k \in 1..Len(mts) |-> copy_material(robot, mts[k])]
           \o [k \in 1..Len(txs) |-> copy_asset(robot, txs[k], texturePath)]
           \o [k \in 1..Len(mss) |-> copy_asset(robot, mss[k], meshPath)]]

merge_mujoco_contact(in, o, robot) ==
  copy_and_add_prefix(in,
    copy_and_add_prefix(in, o, "pair", robot,
                        <<"name", "class", "geom1", "geom2">>),
    "exclude", robot, <<"name", "body1", "body2">>)

merge_mujoco_actuator(in, o, robot) ==
  [o EXCEPT !.children =
     @ \o [k \in 1..Len(in.children) |->
             add_prefixes(robot, in.children[k],
               <<"name", "class", "joint", "jointinparent", "site", "tendon",
                 "cranksite", "slidersite">>)]]

merge_mujoco_sensor(in, o, robot) ==
  [o EXCEPT !.children =
     @ \o [k \in 1..Len(in.children) |->
             add_prefixes(robot, in.children[k],
               <<"name", "site", "joint", "actuator", "tendon", "objname",
                 "body">>)]]

merge_mujoco_worldbody(in, o, robot) ==
  [o EXCEPT !.children =
     @ \o [k \in 1..Len(in.children) |->
             add_prefix_recursively(robot, in.children[k],
               <<"name", "childclasss", "class", "material", "hfield", "mesh",
                 "target">>)]]

get_mujoco_path(xmlFile, in, attr) ==
  LET xmlPath == parent_path(xmlFile)
      compiler == Child(in, "compiler")
  IN  IF ~HasAttr(compiler, attr) THEN xmlPath
      ELSE LET dir == AttrValue(compiler, attr) IN
           IF is_absolute(dir) THEN dir ELSE absolute(PathJoin(xmlPath, dir))

(***************************************************************************)
(* The inputs: entity identifiers and the files on disk.                   *)
(***************************************************************************)
IdA == <<"a">>
IdAB == <<"a", "_", "b">>
IdB == <<"b">>

Ids == {IdA, IdAB, IdB}

PathArm == <<"/", "r", "/", "x">>
PathEnv == <<"y">>
PathBig == <<"/", "z">>
PathBad == <<"/", "u">>
PathNoRoot == <<"/", "n">>

Paths == {PathArm, PathEnv, PathBig, PathBad, PathNoRoot}

\* A model with every section: relative mesh directory, references from the
\* worldbody, the defaults, the assets, the contacts, the actuators and the
\* sensors to the elements they name.
DocArm ==
  Node("mujoco", <<At("model", <<"x">>)>>, <<
    Node("compiler", <<At("angle", <<"r">>), At("meshdir", <<"m">>)>>, <<>>),
    Node("size", <<At("njmax", <<"1", "0">>), At("nkey", <<"1">>)>>, <<>>),
    Node("option", <<At("timestep", <<"1">>)>>,
         <<Node("flag", <<At("gravity", <<"e">>)>>, <<>>)>>),
    Node("default", <<>>, <<
      Node("geom", <<At("material", <<"g">>)>>, <<>>),
      Node("default", <<At("class", <<"c">>)>>,
           <<Node("geom", <<At("material", <<"g">>), At("mesh", <<"k">>)>>,
                  <<>>)>>)>>),
    Node("visual", <<>>, <<
      Node("global", <<At("fovy", <<"4">>), At("offwidth", <<"9">>)>>, <<>>)>>),
    Node("asset", <<>>, <<
      Node("mesh", <<At("name", <<"k">>), At("file", <<"k", ".", "s">>)>>,
           <<>>),
      Node("texture", <<At("name", <<"t">>), At("file", <<"/", "t">>)>>,
           <<>>),
      Node("material", <<At("name", <<"g">>), At("texture", <<"t">>)>>, <<>>),
      Node("hfield", <<At("name", <<"h">>), At("file", <<"h", ".", "p">>)>>,
           <<>>),
      Node("skin", <<At("name", <<"s">>), At("file", <<"s", ".", "k">>),
                     At("material", <<"g">>)>>,
           <<Node("bone", <<At("body", <<"c">>)>>, <<>>)>>)>>),
    Node("contact", <<>>, <<
      Node("exclude", <<At("body1", <<"c">>), At("body2", <<"c">>)>>, <<>>),
      Node("pair", <<At("name", <<"p">>), At("geom1", <<"q">>),
                     At("geom2", <<"q">>)>>, <<>>)>>),
    Node("actuator", <<>>, <<
      Node("motor", <<At("name", <<"m">>), At("joint", <<"j">>),
                      At("class", <<"c">>)>>, <<>>)>>),
    Node("sensor", <<>>, <<
      Node("jointpos", <<At("name", <<"n">>), At("joint", <<"j">>)>>, <<>>)>>),
    Node("worldbody", <<>>, <<
      Node("body", <<At("name", <<"c">>), At("childclass", <<"c">>),
                     At("pos", <<"0">>)>>, <<
        Node("joint", <<At("name", <<"j">>)>>, <<>>),
        Node("geom", <<At("name", <<"q">>), At("material", <<"g">>),
                       At("mesh", <<"k">>)>>, <<>>)>>)>>)>>)

\* A model whose settings conflict with DocArm's, with an absolute texture
\* directory and names that contain the separator.
DocEnv ==
  Node("mujoco", <<At("model", <<"y">>)>>, <<
    Node("compiler", <<At("angle", <<"d">>), At("coordinate", <<"l">>),
                       At("texturedir", <<"/", "T">>)>>, <<>>),
    Node("size", <<At("njmax", <<"5">>), At("nstack", <<"7">>)>>, <<>>),
    Node("option", <<At("timestep", <<"2">>)>>,
         <<Node("flag", <<At("gravity", <<"d">>), At("contact", <<"d">>)>>,
                <<>>)>>),
    Node("default", <<>>, <<
      Node("geom", <<At("material", <<"w">>), At("rgba", <<"1">>)>>, <<>>)>>),
    Node("visual", <<>>, <<
      Node("global", <<At("fovy", <<"4">>), At("offwidth", <<"8">>)>>, <<>>),
      Node("quality", <<At("shadowsize", <<"2">>)>>, <<>>)>>),
    Node("asset", <<>>, <<
      Node("texture", <<At("name", <<"v">>), At("file", <<"v", ".", "p">>)>>,
           <<>>),
      Node("material", <<At("name", <<"w">>), At("texture", <<"v">>)>>, <<>>),
      Node("mesh", <<At("name", <<"b", "_", "c">>),
                     At("file", <<"/", "a", ".", "s">>)>>, <<>>)>>),
    Node("worldbody", <<>>, <<
      Node("geom", <<At("name", <<"f">>), At("material", <<"w">>)>>, <<>>),
      Node("body", <<At("name", <<"b", "_", "c">>)>>, <<
        Node("geom", <<At("mesh", <<"b", "_", "c">>)>>, <<>>)>>)>>)>>)

\* A model with the largest size counter an int holds and few sections.
DocBig ==
  Node("mujoco", <<>>, <<
    Node("size", <<At("njmax", FormatInt(IntMax))>>, <<>>),
    Node("asset", <<>>, <<
      Node("mesh", <<At("name", <<"c">>), At("file", <<"c", ".", "s">>)>>,
           <<>>)>>),
    Node("worldbody", <<>>, <<
      Node("body", <<At("name", <<"c">>)>>, <<
        Node("geom", <<At("mesh", <<"c">>)>>, <<>>)>>)>>)>>)

\* A well-formed document whose root is not mujoco.
DocNoRoot == Node("robot", <<At("name", <<"n">>)>>, <<>>)

\* The files on disk: whether load_file parses the file, and the document
\* node it yields (the root element is its only child).
FileSystem(path) ==
  CASE path = PathArm -> [parsed |-> TRUE, doc |-> Node("#document", <<>>, <<DocArm>>)]
    [] path = PathEnv -> [parsed |-> TRUE, doc |-> Node("#document", <<>>, <<DocEnv>>)]
    [] path = PathBig -> [parsed |-> TRUE, doc |-> Node("#document", <<>>, <<DocBig>>)]
    [] path = PathNoRoot ->
         [parsed |-> TRUE, doc |-> Node("#document", <<>>, <<DocNoRoot>>)]
    [] OTHER -> [parsed |-> FALSE, doc |-> NullNode]

\* xml_document::load_file succeeds.
load_file(path) == FileSystem(path).parsed

\* in.child("mujoco") of the loaded document.
mujoco_root(path) == Child(FileSystem(path).doc, "mujoco")

(***************************************************************************)
(* merge_mujoco_models and merge_mujoco_model as a state machine: one step *)
(* per section merger.                                                     *)
(***************************************************************************)
outFile == <<"/", "t", "m", "p", "/", "m", "c", "_", "m", "u", "j", "o", "c",
             "o", ".", "x", "m", "l">>

\* The sequences of length n without repetition over S.
InjectiveSeqs(S, n) ==
  {s \in [1..n -> S] : \A a, b \in 1..n : a # b => s[a] # s[b]}

\* A call of merge_mujoco_models: lists of equal length, the identifiers
\* distinct as the caller must see to.
Init ==
  /\ \E n \in 0..MaxEntities :
       /\ robots \in InjectiveSeqs(Ids, n)
       /\ xmlFiles \in [1..n -> Paths]
  /\ pc = "start"
  /\ i = 1
  /\ root = Null
  /\ out = Null
  /\ log = <<>>
  /\ loaded = <<>>
  /\ written = Null
  /\ result = Null

\* The comparison inverted: the early return taken for several files.
IsSingle_inverted(files) == Len(files) > 1

\* if(xmlFiles.size() == 1)
IsSingle(files) == Len(files) = 1

ReturnSingle ==
  /\ pc = "start"
  /\ IsSingle(xmlFiles)
  /\ result' = xmlFiles[1]
  /\ pc' = "done"
  /\ UNCHANGED <<robots, xmlFiles, i, root, out, log, loaded, written>>

CreateOutput ==
  /\ pc = "start"
  /\ ~IsSingle(xmlFiles)
  /\ out' = Node("mujoco", <<At("model", <<"m", "c", "_", "m", "u", "j", "o", "c", "o">>)>>, <<>>)
  /\ i' = 1
  /\ pc' = "loop"
  /\ UNCHANGED <<robots, xmlFiles, root, log, loaded, written, result>>

\* The check of the root node left out.
CanMerge_unchecked_root(xmlFile) == load_file(xmlFile)

\* The document of xmlFile is usable: it parses and has a mujoco root.
CanMerge(xmlFile) == load_file(xmlFile) /\ ~IsNull(mujoco_root(xmlFile))

\* The head of merge_mujoco_model: load the file and find its root, or
\* report the error and throw.
Load ==
  /\ pc = "loop"
  /\ i <= Len(robots)
  /\ loaded' = Append(loaded, xmlFiles[i])
  /\ IF CanMerge(xmlFiles[i])
     THEN /\ root' = mujoco_root(xmlFiles[i])
          /\ pc' = "compiler"
          /\ log' = log
     ELSE /\ root' = root
          /\ pc' = "threw"
          /\ log' = Append(log,
                      Fatal(IF load_file(xmlFiles[i]) THEN "No mujoco root node"
                            ELSE "Failed to load", xmlFiles[i]))
  /\ UNCHANGED <<robots, xmlFiles, i, out, written, result>>

\* A step that merges section sec through a merger yielding [out, log].
MergeLogged(sec, m, next) ==
  /\ out' = WithChild(get_child_or_create(out, sec), sec, m.out)
  /\ log' = log \o m.log
  /\ pc' = next
  /\ UNCHANGED <<robots, xmlFiles, i, root, loaded, written, result>>

\* A step that merges section sec through a merger yielding the section.
MergeCopied(sec, o, next) ==
  /\ out' = WithChild(get_child_or_create(out, sec), sec, o)
  /\ pc' = next
  /\ UNCHANGED <<robots, xmlFiles, i, root, log, loaded, written, result>>

\* The section sec of the output, created when missing.
OutSection(sec) == Child(get_child_or_create(out, sec), sec)

MergeCompiler ==
  /\ pc = "compiler"
  /\ MergeLogged("compiler",
       merge_mujoco_compiler(xmlFiles[i], Child(root, "compiler"),
                             OutSection("compiler")),
       "size")

MergeSize ==
  /\ pc = "size"
  /\ \E r \in merge_mujoco_size(Child(root, "size"), OutSection("size")) :
       IF r.trap
       THEN /\ pc' = "trapped"
            /\ UNCHANGED <<robots, xmlFiles, i, root, out, log, loaded,
                           written, result>>
       ELSE MergeCopied("size", r.out, "option")

MergeOption ==
  /\ pc = "option"
  /\ MergeLogged("option",
       merge_mujoco_option(xmlFiles[i], Child(root, "option"),
                           OutSection("option")),
       "default")

MergeDefault ==
  /\ pc = "default"
  /\ MergeLogged("default",
       merge_mujoco_default(xmlFiles[i], Child(root, "default"),
                            OutSection("default"), robots[i]),
       "visual")

MergeVisual ==
  /\ pc = "visual"
  /\ MergeLogged("visual",
       merge_mujoco_visual(xmlFiles[i], Child(root, "visual"),
                           OutSection("visual")),
       "asset")

MergeAsset ==
  /\ pc = "asset"
  /\ MergeCopied("asset",
       merge_mujoco_asset(Child(root, "asset"), OutSection("asset"),
                          get_mujoco_path(xmlFiles[i], root, "meshdir"),
                          get_mujoco_path(xmlFiles[i], root, "texturedir"),
                          robots[i]),
       "contact")

MergeContact ==
  /\ pc = "contact"
  /\ MergeCopied("contact",
       merge_mujoco_contact(Child(root, "contact"), OutSection("contact"),
                            robots[i]),
       "actuator")

MergeActuator ==
  /\ pc = "actuator"
  /\ MergeCopied("actuator",
       merge_mujoco_actuator(Child(root, "actuator"), OutSection("actuator"),
                             robots[i]),
       "sensor")

MergeSensor ==
  /\ pc = "sensor"
  /\ MergeCopied("sensor",
       merge_mujoco_sensor(Child(root, "sensor"), OutSection("sensor"),
                           robots[i]),
       "worldbody")

\* The last section of merge_mujoco_model; the document goes out of scope
\* and the loop of merge_mujoco_models moves on.
MergeWorldbody ==
  /\ pc = "worldbody"
  /\ out' = WithChild(get_child_or_create(out, "worldbody"), "worldbody",
              merge_mujoco_worldbody(Child(root, "worldbody"),
                                     OutSection("worldbody"), robots[i]))
  /\ root' = Null
  /\ i' = i + 1
  /\ pc' = "loop"
  /\ UNCHANGED <<robots, xmlFiles, log, loaded, written, result>>

\* After the loop: save the tree and return the path of the merged model.
Save ==
  /\ pc = "loop"
  /\ i > Len(robots)
  /\ written' = out
  /\ result' = outFile
  /\ pc' = "done"
  /\ UNCHANGED <<robots, xmlFiles, i, root, out, log, loaded>>

Next ==
  \/ ReturnSingle
  \/ CreateOutput
  \/ Load
  \/ MergeCompiler
  \/ MergeSize
  \/ MergeOption
  \/ MergeDefault
  \/ MergeVisual
  \/ MergeAsset
  \/ MergeContact
  \/ MergeActuator
  \/ MergeSensor
  \/ MergeWorldbody
  \/ Save

Spec == Init /\ [][Next]_vars

(***************************************************************************)
(* What the properties below speak of: the source of each entity and how   *)
(* far the merge has come.                                                 *)
(***************************************************************************)
Sections ==
  <<"compiler", "size", "option", "default", "visual", "asset", "contact",
    "actuator", "sensor", "worldbody">>

SecPos(sec) == CHOOSE k \in 1..Len(Sections) : Sections[k] = sec

\* The number of sections of entity i merged so far, plus one.
Pos ==
  IF pc \in Range(Sections) THEN SecPos(pc)
  ELSE IF pc = "trapped" THEN SecPos("size")
  ELSE 1

\* Section sec of entity j has been merged into the output.
Merged(j, sec) ==
  /\ out # Null
  /\ j \in 1..Len(robots)
  /\ j < i \/ (j = i /\ SecPos(sec) < Pos)

\* The file of entity j cannot be parsed or has no mujoco root node.
Unusable(j) ==
  \/ ~FileSystem(xmlFiles[j]).parsed
  \/ \A k \in 1..Len(FileSystem(xmlFiles[j]).doc.children) :
       FileSystem(xmlFiles[j]).doc.children[k].name # "mujoco"

\* The mujoco node of the source document of entity j.
SrcRoot(j) == FileSystem(xmlFiles[j]).doc.children[1]

\* The node of tree t at path (one or two tags), the null node when missing.
NodeAt(t, path) ==
  IF Len(path) = 1 THEN Child(t, path[1])
  ELSE Child(Child(t, path[1]), path[2])

(***************************************************************************)
(* C1.  A call with exactly one entity (one identifier, one file path)     *)
(* returns that file path unchanged; in that call no source document is    *)
(* loaded, no output tree is built and no output file is written.          *)
(***************************************************************************)
\* C1: with one entity the call can only return its file path, and loads,
\* builds and writes nothing.
SingleEntityReturnsInput ==
  (Len(robots) = 1 /\ Len(xmlFiles) = 1) =>
    /\ pc \in {"start", "done"}
    /\ pc = "start" => ENABLED ReturnSingle
    /\ pc = "done" => result = xmlFiles[1]
    /\ loaded = <<>>
    /\ root = Null
    /\ out = Null
    /\ written = Null

SingleEntityReturned ==
  /\ Len(robots) = 1
  /\ Len(xmlFiles) = 1
  /\ pc = "done"
  /\ result = PathArm

(***************************************************************************)
(* C7.  In a merge of two or more entities, when the file of the entity at *)
(* position k cannot be parsed or has no mujoco root node, the merge       *)
(* aborts at that entity: a fatal diagnostic is reported, no section       *)
(* merger runs for entity k or any later one (the output tree stays as it  *)
(* was and no further step is taken), the output file is not written and   *)
(* no path is returned.                                                    *)
(***************************************************************************)
\* C7: a failed load throws with one fatal diagnostic and the output tree
\* untouched, no step follows, and nothing is written or returned.
FailedLoadAborts ==
  /\ [][(pc = "loop" /\ i <= Len(robots) /\ Unusable(i)) =>
          /\ pc' = "threw"
          /\ out' = out
          /\ Len(log') = Len(log) + 1
          /\ log'[Len(log')].level = "error"
          /\ log'[Len(log')].file = xmlFiles[i]]_vars
  /\ [][pc # "threw"]_vars
  /\ [](pc = "threw" => written = Null /\ result = Null)

\* The second entity failed to load after the first one was merged.
SecondEntityFailed ==
  /\ pc = "threw"
  /\ i = 2
  /\ Len(out.children) = Len(Sections)
  /\ xmlFiles[2] = PathNoRoot

(***************************************************************************)
(* C2.  For each of the 13 size counters and every list of two or more     *)
(* entities with integer counter values, the counter on the output size    *)
(* node equals the integer sum of the values of all entities that declare  *)
(* it, and is absent when none declares it.  The sum is taken over the set *)
(* of declaring entities, so it is the same for every order of the list.   *)
(* Integers are kept as [hi, lo] with value hi * 10^9 + lo, so that the    *)
(* sum of several ints is exact.                                           *)
(***************************************************************************)
Big(n) == [hi |-> n \div 1000000000, lo |-> n % 1000000000]

BigAdd(x, y) ==
  [hi |-> x.hi + y.hi + ((x.lo + y.lo) \div 1000000000),
   lo |-> (x.lo + y.lo) % 1000000000]

\* x is at most IntMax (for x >= 0).
BigFitsInt(x) == x.hi < 2 \/ (x.hi = 2 /\ x.lo <= IntMax - 2000000000)

\* The entities whose size section is merged and declares counter c.
Declaring(c) ==
  {j \in 1..Len(robots) :
     Merged(j, "size") /\ HasAttr(Child(SrcRoot(j), "size"), c)}

\* The exact sum of counter c over the entities of D.
RECURSIVE CounterSum(_, _)
CounterSum(c, D) ==
  IF D = {} THEN Big(0)
  ELSE LET j == CHOOSE x \in D : TRUE IN
       BigAdd(Big(as_int(AttrValue(Child(SrcRoot(j), "size"), c))),
              CounterSum(c, D \ {j}))

\* C2: every size counter of the output is the exact sum over the entities
\* declaring it, absent when there is none.
SizeCountersAreSums ==
  (out # Null /\ Len(robots) >= 2) =>
    \A k \in 1..Len(attributes) :
      LET c == attributes[k]
          size == Child(out, "size")
      IN  IF Declaring(c) = {} THEN ~HasAttr(size, c)
          ELSE /\ HasAttr(size, c)
               /\ Big(as_int(AttrValue(size, c))) = CounterSum(c, Declaring(c))

\* The same, for the counters whose sum fits an int at every addition.
SizeCountersAreSumsWhenTheyFit ==
  (out # Null /\ Len(robots) >= 2) =>
    \A k \in 1..Len(attributes) :
      LET c == attributes[k]
          size == Child(out, "size")
      IN  IF Declaring(c) = {} THEN ~HasAttr(size, c)
          ELSE BigFitsInt(CounterSum(c, Declaring(c))) =>
                 /\ HasAttr(size, c)
                 /\ Big(as_int(AttrValue(size, c))) = CounterSum(c, Declaring(c))

(***************************************************************************)
(* The copies: which nodes of the output were copied from which nodes of   *)
(* the source of an entity.                                                *)
(***************************************************************************)
CopySections ==
  {"default", "asset", "contact", "actuator", "sensor", "worldbody"}

\* The nodes of section sec of tree t that are copied, in the order of
\* their copies in the output.
CopiedFrom(t, sec) ==
  LET n == Child(t, sec) IN
  CASE sec = "default" -> ChildrenNamed(n, "default")
    [] sec = "asset" ->
         ChildrenNamed(n, "hfield") \o ChildrenNamed(n, "skin")
           \o ChildrenNamed(n, "material") \o ChildrenNamed(n, "texture")
           \o ChildrenNamed(n, "mesh")
    [] sec = "contact" -> ChildrenNamed(n, "pair") \o ChildrenNamed(n, "exclude")
    [] OTHER -> n.children

SrcCopied(j, sec) == CopiedFrom(SrcRoot(j), sec)

\* The copies in section sec of the output tree o.
CopiesIn(o, sec) ==
  IF sec = "default" THEN ChildrenNamed(Child(o, "default"), "default")
  ELSE Child(o, sec).children

OutCopies(sec) == CopiesIn(out, sec)

\* The number of copies in section sec made for the entities before j.
RECURSIVE Offset(_, _)
Offset(j, sec) ==
  IF j = 1 THEN 0 ELSE Offset(j - 1, sec) + Len(SrcCopied(j - 1, sec))

\* The entities whose section sec is merged.
MergedEntities(sec) == {j \in 1..Len(robots) : Merged(j, sec)}

\* The copies are as many as the nodes copied.
CopiesCounted(sec) ==
  LET M == MergedEntities(sec) IN
  Len(OutCopies(sec)) =
    IF M = {} THEN 0
    ELSE LET last == CHOOSE j \in M : \A k \in M : k <= j IN
         Offset(last, sec) + Len(SrcCopied(last, sec))

\* The copy of the k-th copied node of section sec of entity j.
OutCopy(j, sec, k) == OutCopies(sec)[Offset(j, sec) + k]

\* Node d has the tags, attribute names and shape of node s, at every depth.
RECURSIVE SameShape(_, _)
SameShape(s, d) ==
  /\ d.name = s.name
  /\ Len(d.attrs) = Len(s.attrs)
  /\ \A k \in 1..Len(s.attrs) : d.attrs[k].name = s.attrs[k].name
  /\ Len(d.children) = Len(s.children)
  /\ \A k \in 1..Len(s.children) : SameShape(s.children[k], d.children[k])

\* Every copy in the output has the shape of the node it was copied from.
CopiesShaped ==
  \A sec \in CopySections :
    /\ CopiesCounted(sec)
    /\ \A j \in MergedEntities(sec) :
         \A k \in 1..Len(SrcCopied(j, sec)) :
           SameShape(SrcCopied(j, sec)[k], OutCopy(j, sec, k))

\* The attributes of node s and its descendants, each with its value in the
\* source (sv) and in the copy d (ov), the tag of its node and the depth.
RECURSIVE AttrPairs(_, _, _)
AttrPairs(s, d, depth) ==
  {[tag |-> s.name, attr |-> s.attrs[k].name, sv |-> s.attrs[k].value,
    ov |-> d.attrs[k].value, depth |-> depth] : k \in 1..Len(s.attrs)}
  \cup UNION {AttrPairs(s.children[k], d.children[k], depth + 1) :
                k \in 1..Len(s.children)}

\* The attributes copied for entity j in section sec.
CopiedAttrs(j, sec) ==
  IF ~Merged(j, sec) THEN {}
  ELSE UNION {AttrPairs(SrcCopied(j, sec)[k], OutCopy(j, sec, k), 0) :
                k \in 1..Len(SrcCopied(j, sec))}

(***************************************************************************)
(* C5.  Every top-level child of the worldbody of an entity with           *)
(* identifier id is deep-copied into the output worldbody; on the copy and *)
(* on every descendant, each attribute among name, childclass, class,      *)
(* material, hfield, mesh and target has the value id + "_" + original     *)
(* value, and every other attribute is copied unchanged.                   *)
(***************************************************************************)
WorldbodyRenamed ==
  {"name", "childclass", "class", "material", "hfield", "mesh", "target"}

\* C5: in every worldbody copy the attributes of WorldbodyRenamed carry the
\* entity prefix at every depth and the others are unchanged.
WorldbodyCopiesPrefixed ==
  out # Null =>
    /\ CopiesShaped
    /\ \A j \in MergedEntities("worldbody") :
         \A p \in CopiedAttrs(j, "worldbody") :
           p.ov = IF p.attr \in WorldbodyRenamed
                  THEN robots[j] \o <<"_">> \o p.sv
                  ELSE p.sv

\* The same with childclass among the attributes copied unchanged.
WorldbodyCopiesPrefixedButChildclass ==
  out # Null =>
    /\ CopiesShaped
    /\ \A j \in MergedEntities("worldbody") :
         \A p \in CopiedAttrs(j, "worldbody") :
           p.ov = IF p.attr \in WorldbodyRenamed \ {"childclass"}
                  THEN robots[j] \o <<"_">> \o p.sv
                  ELSE p.sv

(***************************************************************************)
(* C6.  After a merge of two or more entities, every node of the output    *)
(* asset section with a file attribute (hfield, skin, texture or mesh) has *)
(* an absolute path as its value: a value absolute in the source is        *)
(* unchanged, a relative one is the base directory of the entity (mesh     *)
(* directory, or texture directory for a texture) joined with it.          *)
(***************************************************************************)
\* The base directory of entity j for the assets of tag: the compiler's
\* meshdir or texturedir, or the directory of the source file.
BaseDir(j, tag) ==
  LET attr == IF tag = "texture" THEN "texturedir" ELSE "meshdir"
      compiler == Child(SrcRoot(j), "compiler")
      here == parent_path(xmlFiles[j])
  IN  IF ~HasAttr(compiler, attr) THEN here
      ELSE IF is_absolute(AttrValue(compiler, attr)) THEN AttrValue(compiler, attr)
      ELSE absolute(PathJoin(here, AttrValue(compiler, attr)))

\* C6: in the saved tree every asset file is absolute, resolved against the
\* base directory of its entity when it was relative.
AssetFilesAbsolute ==
  (pc = "done" /\ written # Null) =>
    /\ CopiesShaped
    /\ \A j \in MergedEntities("asset") :
         \A p \in CopiedAttrs(j, "asset") :
           (p.attr = "file" /\ p.depth = 0) =>
             /\ is_absolute(p.ov)
             /\ p.ov = IF is_absolute(p.sv) THEN p.sv
                       ELSE absolute(PathJoin(BaseDir(j, p.tag), p.sv))

\* The same for the assets other than height fields.
AssetFilesAbsoluteButHfield ==
  (pc = "done" /\ written # Null) =>
    /\ CopiesShaped
    /\ \A j \in MergedEntities("asset") :
         \A p \in CopiedAttrs(j, "asset") :
           (p.attr = "file" /\ p.depth = 0 /\ p.tag # "hfield") =>
             /\ is_absolute(p.ov)
             /\ p.ov = IF is_absolute(p.sv) THEN p.sv
                       ELSE absolute(PathJoin(BaseDir(j, p.tag), p.sv))

(***************************************************************************)
(* C8.  Prefixing keeps the identifiers of different entities distinct:    *)
(* for two entities with different identifiers, no renamed value of one    *)
(* equals a renamed value of the same kind (same tag, same attribute) of   *)
(* the other, whatever the identifiers and names, those that contain the   *)
(* separator "_" included.                                                 *)
(***************************************************************************)
AllCopiedAttrs(j) == UNION {CopiedAttrs(j, sec) : sec \in CopySections}

\* The attribute was renamed: it is no file path and its value changed.
Renamed(p) == p.attr # "file" /\ p.ov # p.sv

SameKind(p, q) == p.tag = q.tag /\ p.attr = q.attr

\* C8: renamed values of the same kind of two entities with different
\* identifiers differ.
PrefixesKeepEntitiesApart ==
  out # Null =>
    /\ CopiesShaped
    /\ \A j, k \in 1..Len(robots) :
         robots[j] # robots[k] =>
           \A p \in AllCopiedAttrs(j), q \in AllCopiedAttrs(k) :
             (Renamed(p) /\ Renamed(q) /\ SameKind(p, q)) => p.ov # q.ov

\* C8 as amended: the same for two entities neither of whose identifiers,
\* followed by the separator, begins the other identifier.
Separable(a, b) ==
  /\ ~IsPrefixOf(a \o <<"_">>, b)
  /\ ~IsPrefixOf(b \o <<"_">>, a)

\* C8, amended: renamed values of the same kind of two entities with
\* separable identifiers differ.
PrefixesKeepSeparableEntitiesApart ==
  out # Null =>
    /\ CopiesShaped
    /\ \A j, k \in 1..Len(robots) :
         (robots[j] # robots[k] /\ Separable(robots[j], robots[k])) =>
           \A p \in AllCopiedAttrs(j), q \in AllCopiedAttrs(k) :
             (Renamed(p) /\ Renamed(q) /\ SameKind(p, q)) => p.ov # q.ov

\* Two entities with separable identifiers gave the same name to elements
\* of the same kind, and both were renamed.
SameNameInTwoEntities ==
  /\ out # Null
  /\ \E j, k \in 1..Len(robots) :
       /\ robots[j] # robots[k]
       /\ Separable(robots[j], robots[k])
       /\ \E p \in AllCopiedAttrs(j), q \in AllCopiedAttrs(k) :
            Renamed(p) /\ Renamed(q) /\ SameKind(p, q) /\ p.sv = q.sv

(***************************************************************************)
(* C9.  Every renamed identifier of the output carries exactly one entity  *)
(* prefix, applied once: no attribute of a copied node is prefixed twice   *)
(* (its value is the source value, or the entity identifier, "_" and the   *)
(* source value), and no step of the merge changes a node copied into the  *)
(* output earlier (default blocks, assets, contacts, actuators, sensors,   *)
(* worldbody subtrees).                                                    *)
(***************************************************************************)
PrefixedAtMostOnce ==
  out # Null =>
    /\ CopiesShaped
    /\ \A j \in 1..Len(robots) :
         \A p \in AllCopiedAttrs(j) :
           p.attr # "file" =>
             \/ p.ov = p.sv
             \/ p.ov = robots[j] \o <<"_">> \o p.sv

CopiesKept ==
  out # Null =>
    \A sec \in CopySections : IsPrefixOf(CopiesIn(out, sec), CopiesIn(out', sec))

\* C9: every copied attribute carries at most one prefix, that of its
\* entity, and no step changes a copy made earlier.
EachCopyPrefixedOnce == []PrefixedAtMostOnce /\ [][CopiesKept]_vars

\* Two entities were merged, and both had attributes renamed at depth.
TwoEntitiesCopied ==
  /\ pc = "done"
  /\ Len(robots) = 2
  /\ \A j \in 1..2 :
       \E p \in AllCopiedAttrs(j) : Renamed(p) /\ p.depth > 0

(***************************************************************************)
(* C10.  Prefixing preserves the references inside one entity: when in the *)
(* source of an entity a reference attribute (class or childclass naming a *)
(* default class; material, mesh, hfield or texture naming an asset;       *)
(* joint, site, body, geom1/geom2, body1/body2 naming a worldbody element) *)
(* has the value of the defining identifier of an element of that source,  *)
(* then in the output the copied reference and the copied identifier still *)
(* have equal values, wherever the reference occurs.                       *)
(***************************************************************************)
\* What an attribute names, "" when it is no reference.
RefKind(sec, p) ==
  CASE p.attr \in {"class", "childclass"} /\ ~(sec = "default" /\ p.tag = "default")
         -> "class"
    [] p.attr \in {"material", "mesh", "hfield", "texture", "joint", "site", "body"}
         -> p.attr
    [] p.attr \in {"geom1", "geom2"} -> "geom"
    [] p.attr \in {"body1", "body2"} -> "body"
    [] OTHER -> ""

\* What an attribute defines, "" when it is no defining identifier.
DefKind(sec, p) ==
  CASE sec = "default" /\ p.tag = "default" /\ p.attr = "class" -> "class"
    [] sec = "asset" /\ p.attr = "name" /\ p.depth = 0 -> p.tag
    [] sec = "worldbody" /\ p.attr = "name" -> p.tag
    [] OTHER -> ""

\* The attributes of the non-default children of the default section of
\* entity j, each with its value in the output child they were merged into.
DefaultLeafAttrs(j) ==
  IF ~Merged(j, "default") THEN {}
  ELSE LET cs == Child(SrcRoot(j), "default").children IN
       UNION {{[tag |-> cs[k].name, attr |-> cs[k].attrs[m].name,
                sv |-> cs[k].attrs[m].value,
                ov |-> AttrValue(NodeAt(out, <<"default", cs[k].name>>),
                                 cs[k].attrs[m].name),
                depth |-> 0] :
                m \in {x \in 1..Len(cs[k].attrs) :
                         HasAttr(NodeAt(out, <<"default", cs[k].name>>),
                                 cs[k].attrs[x].name)}} :
              k \in {x \in 1..Len(cs) : cs[x].name # "default"}}

\* The references of entity j: [kind, sv, ov, site].
References(j) ==
  UNION {{[kind |-> RefKind(sec, p), sv |-> p.sv, ov |-> p.ov,
           site |-> <<sec, p.tag, p.attr>>] :
            p \in {x \in CopiedAttrs(j, sec) : RefKind(sec, x) # ""}} :
         sec \in CopySections}
  \cup {[kind |-> RefKind("leaf", p), sv |-> p.sv, ov |-> p.ov,
         site |-> <<"default leaf", p.tag, p.attr>>] :
          p \in {x \in DefaultLeafAttrs(j) : RefKind("leaf", x) # ""}}

\* The defining identifiers of entity j: [kind, sv, ov].
Definitions(j) ==
  UNION {{[kind |-> DefKind(sec, p), sv |-> p.sv, ov |-> p.ov] :
            p \in {x \in CopiedAttrs(j, sec) : DefKind(sec, x) # ""}} :
         sec \in CopySections}

\* C10: a reference and a defining identifier of one entity that were equal
\* in the source are equal in the output.
ReferencesPreserved ==
  out # Null =>
    /\ CopiesShaped
    /\ \A j \in 1..Len(robots) :
         \A r \in References(j), d \in Definitions(j) :
           (r.kind = d.kind /\ r.sv = d.sv) => r.ov = d.ov

\* The same but for the three places that are left without a prefix: the
\* childclass of worldbody elements, the non-default children of the
\* default section and the material of a skin.
ReferencesPreservedWherePrefixed ==
  out # Null =>
    /\ CopiesShaped
    /\ \A j \in 1..Len(robots) :
         \A r \in References(j), d \in Definitions(j) :
           (/\ r.kind = d.kind
            /\ r.sv = d.sv
            /\ r.site[3] # "childclass"
            /\ r.site[1] # "default leaf"
            /\ r.site # <<"asset", "skin", "material">>) => r.ov = d.ov

(***************************************************************************)
(* The nodes merged under the first-wins policy.                           *)
(***************************************************************************)
\* The entities whose file yields a mujoco root.
Usable == {j \in 1..Len(robots) : ~Unusable(j)}

\* The tags of the children of section sec in the sources and the output.
ChildTags(sec) ==
  UNION {{c.name : c \in Range(Child(SrcRoot(j), sec).children)} : j \in Usable}
  \cup (IF out = Null THEN {}
        ELSE {c.name : c \in Range(Child(out, sec).children)})

\* The paths of the nodes merged by merge_mujoco_node.
FirstWinsPaths ==
  {<<"compiler">>, <<"option">>, <<"option", "flag">>}
  \cup {<<"default", t>> : t \in ChildTags("default") \ {"default"}}
  \cup {<<"visual", t>> : t \in ChildTags("visual")}

\* The attribute names of the node at path in the sources and the output.
AttrNames(path) ==
  UNION {{a.name : a \in Range(NodeAt(SrcRoot(j), path).attrs)} : j \in Usable}
  \cup (IF out = Null THEN {}
        ELSE {a.name : a \in Range(NodeAt(out, path).attrs)})

\* The exclusion list of the section.
Exclusion(path) ==
  IF path = <<"compiler">> THEN {"meshdir", "texturedir"} ELSE {}

\* The name of the node in a diagnostic.
PathName(path) ==
  IF Len(path) = 1 THEN path[1] ELSE path[1] \o "/" \o path[2]

(***************************************************************************)
(* C3.  For every output node merged under the first-wins policy           *)
(* (compiler, option, option/flag, non-default children of default,        *)
(* children of visual) and every attribute not on the exclusion list of    *)
(* the section: the value of the attribute is the one given by the         *)
(* earliest entity in list order that declares it, and once the attribute  *)
(* is on the output node no step changes its value or removes it.          *)
(***************************************************************************)
\* The merged entities that declare attribute a on the node at path.
DeclaringAttr(path, a) ==
  {j \in MergedEntities(path[1]) : HasAttr(NodeAt(SrcRoot(j), path), a)}

EarliestValueKept ==
  out # Null =>
    \A path \in FirstWinsPaths :
      \A a \in AttrNames(path) \ Exclusion(path) :
        LET D == DeclaringAttr(path, a) IN
        D # {} =>
          LET first == CHOOSE j \in D : \A k \in D : j <= k IN
          /\ HasAttr(NodeAt(out, path), a)
          /\ AttrValue(NodeAt(out, path), a) =
               AttrValue(NodeAt(SrcRoot(first), path), a)

PresentAttributesKept ==
  out # Null =>
    \A path \in FirstWinsPaths :
      \A a \in AttrNames(path) :
        HasAttr(NodeAt(out, path), a) =>
          /\ HasAttr(NodeAt(out', path), a)
          /\ AttrValue(NodeAt(out', path), a) = AttrValue(NodeAt(out, path), a)

\* C3: on every first-wins node the earliest declared value is the output
\* value, and an attribute once present keeps its value at every step.
FirstLoadedValuePrevails == []EarliestValueKept /\ [][PresentAttributesKept]_vars

\* A later entity declared another value for an attribute the output had,
\* on each kind of first-wins node.
LaterValueDiscarded ==
  /\ pc = "done"
  /\ written # Null
  /\ \A path \in {<<"compiler">>, <<"option">>, <<"option", "flag">>,
                    <<"default", "geom">>, <<"visual", "global">>} :
       \E a \in AttrNames(path) \ Exclusion(path) :
         \E j, k \in DeclaringAttr(path, a) :
           /\ j < k
           /\ AttrValue(NodeAt(SrcRoot(j), path), a) #
                AttrValue(NodeAt(SrcRoot(k), path), a)

(***************************************************************************)
(* C4.  The generic attribute merge emits a conflict diagnostic exactly    *)
(* when a non-excluded source attribute is already on the output node with *)
(* a textually different value: one diagnostic for each such attribute,    *)
(* naming the section, the attribute, the source file, the losing value    *)
(* and the kept value; none when the attribute is absent from the output,  *)
(* has an equal value or is on the exclusion list; and the merge goes on   *)
(* after the diagnostic.                                                   *)
(***************************************************************************)
\* The diagnostics due when the source node s from fileIn is merged into
\* the output node o at path.
ConflictsAt(path, fileIn, s, o) ==
  {Critical(PathName(path), a.name, fileIn, a.value, AttrValue(o, a.name)) :
     a \in {x \in Range(s.attrs) :
              /\ x.name \notin Exclusion(path)
              /\ HasAttr(o, x.name)
              /\ AttrValue(o, x.name) # x.value}}

\* The diagnostics due in the step that merges section sec of entity i.
ExpectedConflicts(sec) ==
  UNION {ConflictsAt(path, xmlFiles[i], NodeAt(root, path), NodeAt(out, path)) :
           path \in {x \in FirstWinsPaths : x[1] = sec}}

ConflictsReported ==
  pc \in Range(Sections) =>
    /\ IsPrefixOf(log, log')
    /\ {log'[k] : k \in (Len(log) + 1)..Len(log')} = ExpectedConflicts(pc)
    /\ Len(log') - Len(log) = Cardinality(ExpectedConflicts(pc))
    /\ Len(log') > Len(log) => pc' \in Range(Sections) \cup {"loop"}

\* C4: every step reports exactly the conflicts of the section it merges.
DiagnosticExactlyOnConflict == [][ConflictsReported]_vars

\* The second entity's compiler was merged with one conflicting attribute
\* (angle), one absent from the output (coordinate) and one excluded
\* (texturedir): exactly one diagnostic, and the merge went on.
OneConflictReported ==
  /\ pc = "size"
  /\ i = 2
  /\ xmlFiles = <<PathArm, PathEnv>>
  /\ log = <<Critical("compiler", "angle", PathEnv, <<"d">>, <<"r">>)>>

============================================================================
